---- MODULE Spec2Model ----
(***************************************************************************)
(* Ledger and lifecycle engine of the howorth marketplace backend:         *)
(* wallet balances, deposit / withdrawal transactions, the single-slot     *)
(* payment gateway gate with its timeout, the payment webhook, purchases   *)
(* with the first-order referral bonus, and the daily settlement job.      *)
(*                                                                         *)
(* Every request handler is an async function: each `await` is a point     *)
(* where other handlers, timers and the cron job may run.  A handler is a  *)
(* slot of `req` with a program counter and its local variables.           *)
(* Writes made with { session } are buffered in the handler (`staged`) and *)
(* reach the store at commitTransaction; all other writes reach the store  *)
(* at once.                                                                *)
(***************************************************************************)
EXTENDS Integers, Sequences, FiniteSets, TLC

\* ---------------------------------------------------------------- bounds
MaxReq == 3            \* requests received in one behaviour
LedgerReq == 2         \* the same in SpecLedger and SpecSettle
MaxRuns == 3           \* runs of the daily settlement job
InitBalance == 500     \* wallet balance of every user at the start
Price == 500           \* product.price
PerDayEarning == 50    \* product.perDayEarning
ProductValidity == 2   \* product.productValidity
Amount == 300          \* the amount of deposit and withdrawal requests

\* calculateReferralBonus(): process.env.INVITE_AMOUNT || 50
ReferralBonus == 50

Users == {1, 2}
\* The products created by the admin, and the productId values a request
\* may carry.
Products == {1}
ProductIds == {1, 2}
Reqs == 1..MaxReq
\* A request creates at most one transaction.
TxIds == 1..MaxReq
\* No document with this transactionId.
NoTx == [userId |-> 0, type |-> "none", amount |-> 0, status |-> "none"]
\* User 1 registered with the referral code of user 2 (0: referredBy null).
ReferredBy == (1 :> 2) @@ (2 :> 0)
\* The fields of user.bankDetails: TRUE when the field holds a value,
\* FALSE when it is null (the schema default).
BankFields == {"bankName", "accountHolderName", "accountNumber", "ifscCode"}
NoBankDetails == [f \in BankFields |-> FALSE]
FullBankDetails == [f \in BankFields |-> TRUE]
\* payment.amount of a callback, in minor units
MinorAmounts == {Amount * 100, Amount * 100 + 50}
\* req.body.event of a callback
Events == {"payment.captured", "order.paid"}
\* The bodies a callback may carry.  paid is the deposit request the payer
\* was answering when paying to the UPI address (0: none): it is known to
\* the payer and the gateway, and no field the handler reads carries it.
Bodies == [event : Events, amount : MinorAmounts, paid : {0} \cup TxIds]
\* RAZORPAY_WEBHOOK_SECRET, and a key that is not the secret.
Secret == "secret"
Secrets == {Secret, "other"}
\* crypto.createHmac('sha256', key).update(body).digest('hex'): a digest is
\* equal to another exactly when key and body are.
Hmac(key, body) == <<key, body>>
\* No x-razorpay-signature header.
NoSig == <<>>
\* The x-razorpay-signature values a request with this body may carry:
\* none, the digest of the body or of the body with another amount under
\* the secret, and the digest of the body under another key.
SignaturesFor(body) ==
  {NoSig}
  \cup {Hmac(Secret, [body EXCEPT !.amount = m]) : m \in MinorAmounts}
  \cup {Hmac(k, body) : k \in Secrets}

VARIABLES
  db,            \* the store: balance, hasPlacedFirstOrder, orders, txns
  tr_id,         \* transaction.js: lease id (0 is the empty string)
  deposit_busy,  \* transaction.js: the gate
  reset,         \* transaction.js: TRUE when no release is due
  timers,        \* pending setTimeout callbacks, by the deposit that set them
  req,           \* request handlers: position and locals
  cron,          \* the settlement job: position and buffered writes
  arrived,       \* requests received so far
  nextId,        \* source of fresh transaction ids (generateTransactionId)
  ledger         \* history: per user, the sum of the deltas written so far

vars == <<db, tr_id, deposit_busy, reset, timers, req, cron, arrived, nextId,
          ledger>>
gate == <<tr_id, deposit_busy, reset, timers>>

\* ---------------------------------------------------------------- writes
W(k, u, id, d, read, flag, st) ==
  [k |-> k, u |-> u, id |-> id, d |-> d, read |-> read, flag |-> flag, st |-> st]

\* The $inc of the balance without the $set of hasPlacedFirstOrder.
IncBalanceOnly(u, d, read, flag) == W("inc", u, 0, d, read, FALSE, "")

\* { $inc: { balance: d } } on user u; flag: also $set hasPlacedFirstOrder.
\* read is the balance the handler last read for u.
IncBalance(u, d, read, flag) == W("inc", u, 0, d, read, flag, "")
\* order.save in the settlement that never writes status completed.
SaveOrderActive(i, validity, st, endDate) ==
  W("saveOrder", 0, i, validity, endDate, FALSE, "active")

\* order.save in the settlement that completes the order only when its
\* validity has gone below 0.
SaveOrderBelowZero(i, validity, st, endDate) ==
  W("saveOrder", 0, i, validity, endDate, FALSE,
    IF validity < 0 THEN "completed" ELSE "active")

\* order.save in the settlement that keeps the validity of an order on its
\* last day, so that the order is settled once more.
SaveOrderExtraDay(i, validity, st, endDate) ==
  W("saveOrder", 0, i, IF validity = 1 THEN 2 ELSE validity, endDate, FALSE,
    st)

\* A new order that counts the day of the purchase as its first day.
InsertOrderDayLess(u, p, validity, endDate) ==
  W("insertOrder", u, p, validity - 1, endDate, FALSE, "active")

\* order.save of a new order of product p, and of order i in the settlement.
InsertOrder(u, p, validity, endDate) ==
  W("insertOrder", u, p, validity, endDate, FALSE, "active")
SaveOrder(i, validity, st, endDate) ==
  W("saveOrder", 0, i, validity, endDate, FALSE, st)
InsertTx(id, u, type, amount) == W("insertTx", u, id, amount, 0, FALSE, type)
SetStatus(id, st) == W("setStatus", 0, id, 0, 0, FALSE, st)

\* $inc computed from the balance the handler read earlier instead of the
\* stored one (a read-modify-write).
IncFromRead(stored, read, d) == read + d

\* $inc is applied by the store to the stored value.
Inc(stored, read, d) == stored + d

\* An update by _id of a user that is no longer in the store matches no
\* document and changes nothing.  captured and credits are no fields of the
\* order document: they record the validity the order was created with and
\* the number of settlement credits that reached its user's balance.
Apply(s, w) ==
  CASE w.k = "inc" ->
         IF w.u \in Users /\ s.exists[w.u]
           THEN [s EXCEPT !.balance[w.u] = Inc(@, w.read, w.d),
                          !.hasPlacedFirstOrder[w.u] = @ \/ w.flag]
           ELSE s
    [] w.k = "insertOrder" ->
         [s EXCEPT !.orders = Append(@, [userId |-> w.u, productId |-> w.id,
                                         validity |-> w.d, endDate |-> w.read,
                                         status |-> "active",
                                         captured |-> w.d, credits |-> 0])]
    [] w.k = "saveOrder" ->
         [s EXCEPT !.orders[w.id].validity = w.d, !.orders[w.id].status = w.st,
                   !.orders[w.id].endDate = w.read,
                   !.orders[w.id].credits =
                     IF s.exists[s.orders[w.id].userId] THEN @ + 1 ELSE @]
    [] w.k = "insertTx" ->
         [s EXCEPT !.txns[w.id] = [userId |-> w.u, type |-> w.st,
                                   amount |-> w.d, status |-> "pending"]]
    [] w.k = "setStatus" ->
         [s EXCEPT !.txns[w.id].status = w.st]

RECURSIVE ApplyAll(_, _)
ApplyAll(s, ws) ==
  IF ws = <<>> THEN s ELSE ApplyAll(Apply(s, Head(ws)), Tail(ws))

\* abortTransaction that leaves the first buffered write in the store (the
\* write was made without { session }).
AbortKeepsFirst(s, ws) == IF ws = <<>> THEN s ELSE Apply(s, Head(ws))

\* abortTransaction that leaves the balance credits buffered so far in the
\* store.
AbortKeepsCredits(s, ws) ==
  ApplyAll(s, SelectSeq(ws, LAMBDA w : w.k = "inc"))

\* A commit by which only the first buffered write reaches the store (the
\* later writes were not part of the unit).
CommitFirstOnly(s, ws) == IF ws = <<>> THEN s ELSE Apply(s, Head(ws))

\* session.commitTransaction(): every buffered write reaches the store.
CommitTransaction(s, ws) == ApplyAll(s, ws)
\* session.abortTransaction(): none does.
AbortTransaction(s, ws) == s

\* The writes of ws that find their document in s.
Matched(s, ws) ==
  SelectSeq(ws, LAMBDA w : w.k # "inc" \/ (w.u \in Users /\ s.exists[w.u]))

\* The sum of the balance deltas of ws, per user.
RECURSIVE Deltas(_, _)
Deltas(l, ws) ==
  IF ws = <<>> THEN l
  ELSE Deltas(IF Head(ws).k = "inc"
                THEN [l EXCEPT ![Head(ws).u] = @ + Head(ws).d] ELSE l,
              Tail(ws))

\* Documents updated by ws (inserts create a document nobody else holds).
Docs(ws) ==
  {<<"user", ws[i].u>> : i \in {j \in DOMAIN ws : ws[j].k = "inc"}}
  \cup {<<"tx", ws[i].id>> : i \in {j \in DOMAIN ws : ws[j].k = "setStatus"}}
  \cup {<<"order", ws[i].id>> : i \in {j \in DOMAIN ws : ws[j].k = "saveOrder"}}

\* Documents written by a transaction that is still open.
LockedBy(r) == Docs(req[r].staged)
Locked(d) == (\E r \in Reqs : d \in LockedBy(r)) \/ d \in Docs(cron.staged)

\* ---------------------------------------------------------------- state
Idle ==
  [op |-> "none", pc |-> "idle", u |-> 0, p |-> 0, id |-> 0, paid |-> 0,
   amt |-> 0, validity |-> 0,
   read |-> 0,
   flag |-> FALSE, act |-> "none", seen |-> "none", staged |-> <<>>,
   res |-> "none", err |-> FALSE]

\* The handler has sent the response res, or has thrown ("error"), and will
\* not run again: its slot is free and shows the outcome until it is reused.
Respond(res) == [Idle EXCEPT !.res = res]

\* The store holds the users, who have submitted their bank details, and
\* the product.
InitDb ==
          [exists |-> [u \in Users |-> TRUE],
           bankDetails |-> [u \in Users |-> FullBankDetails],
           product |-> [p \in Products |-> TRUE],
           productValidity |-> [p \in Products |-> ProductValidity],
           updatedAt |-> [p \in Products |-> 0],
           balance |-> [u \in Users |-> InitBalance],
           hasPlacedFirstOrder |-> [u \in Users |-> FALSE],
           orders |-> <<>>,
           txns |-> [t \in TxIds |-> NoTx]]

InitRest ==
  /\ tr_id = 0
  /\ deposit_busy = FALSE
  /\ reset = TRUE
  /\ timers = {}
  /\ req = [r \in Reqs |-> Idle]
  /\ cron = [pc |-> "idle", staged |-> <<>>, runs |-> 0, res |-> "none"]
  /\ arrived = 0
  /\ nextId = 1
  /\ ledger = [u \in Users |-> 0]

Init == db = InitDb /\ InitRest

\* The users have submitted their bank details or not.
InitBank ==
  /\ \E b \in [Users -> {NoBankDetails, FullBankDetails}] :
       db = [InitDb EXCEPT !.bankDetails = b]
  /\ InitRest

\* A request arrives in the first free slot.
Free(r) ==
  /\ arrived < MaxReq
  /\ req[r].pc = "idle"
  /\ \A q \in 1..(r - 1) : req[q].pc # "idle"
Stored(t) == db.txns[t].type # "none"
\* Product.findById(p) finds a document in s.
HasProduct(s, p) == IF p \in Products THEN s.product[p] ELSE FALSE
\* The day: the settlement job runs once a day.
Today == cron.runs

\* ------------------------------------------------ POST /api/orders
\* if (user.balance < product.price) with no check at all.
NoBalanceCheck(balance, price) == FALSE

\* if (user.balance < product.price)
InsufficientBalance(balance, price) == balance < price

\* Product.findById, User.findById (null for a deleted user: user.balance
\* throws), the balance check and isFirstOrder.
OrderStart(r, u, p) ==
  /\ Free(r)
  /\ arrived' = arrived + 1
  /\ req' = [req EXCEPT ![r] =
       IF ~HasProduct(db, p)
         THEN Respond("Product not found")
       ELSE IF ~db.exists[u]
         THEN Respond("error")
       ELSE IF InsufficientBalance(db.balance[u], Price)
         THEN Respond("Insufficient wallet balance")
         ELSE [Idle EXCEPT !.op = "order", !.pc = "txn", !.u = u, !.p = p,
                           !.validity = db.productValidity[p],
                           !.read = db.balance[u],
                           !.flag = ~db.hasPlacedFirstOrder[u]]]
  /\ UNCHANGED <<db, gate, cron, nextId, ledger>>

\* User.findOne({ referralCode: user.referredBy }): the user holding the
\* code, 0 (null) when no user in the store holds it.
Referrer(s, u) ==
  IF ReferredBy[u] \in Users /\ s.exists[ReferredBy[u]]
    THEN ReferredBy[u] ELSE 0

\* The bonus $inc issued on referrer._id without the if (referrer) test.
BonusUnchecked(s, ref) ==
  <<IncBalance(ref, ReferralBonus, IF ref \in Users THEN s.balance[ref] ELSE 0,
               FALSE)>>

\* if (referrer) { $inc balance by calculateReferralBonus() }
BonusWrites(s, ref) ==
  IF ref # 0
    THEN <<IncBalance(ref, ReferralBonus, s.balance[ref], FALSE)>>
    ELSE <<>>

\* The writes of the order transaction: order.save, the debit with the
\* first-order flag, and, when this is the first order and referredBy is
\* set, the referrer's bonus.
OrderWrites(r) ==
  LET u == req[r].u
  IN  <<InsertOrder(u, req[r].p, req[r].validity, Today + req[r].validity),
        IncBalance(u, -Price, req[r].read, TRUE)>>
      \o (IF req[r].flag /\ ReferredBy[u] # 0
            THEN BonusWrites(db, Referrer(db, u))
            ELSE <<>>)

\* Building a write reads a property of null (a document that was not
\* found): TypeError.
Throws(ws) == \E i \in DOMAIN ws : ws[i].k = "inc" /\ ws[i].u = 0

\* The writes made with { session }; a write to a document another open
\* transaction has written throws WriteConflict; every throw inside try is
\* caught by abortTransaction.
Stage(r, ws) ==
  IF Throws(ws) \/ \E d \in Docs(ws) : Locked(d)
    THEN /\ req' = [req EXCEPT ![r] = Respond("error")]
         /\ db' = AbortTransaction(db, <<>>)
    ELSE /\ req' = [req EXCEPT ![r].pc = "commit", ![r].staged = ws]
         /\ UNCHANGED db

OrderStage(r) ==
  /\ req[r].op = "order" /\ req[r].pc = "txn"
  /\ Stage(r, OrderWrites(r))
  /\ UNCHANGED <<gate, cron, nextId, ledger, arrived>>

\* session.commitTransaction() of an order or of an admin process action.
Commit(r) ==
  /\ req[r].pc = "commit"
  /\ db' = CommitTransaction(db, req[r].staged)
  /\ ledger' = Deltas(ledger, Matched(db, req[r].staged))
  /\ req' = [req EXCEPT ![r] = Respond("ok")]
  /\ UNCHANGED <<gate, cron, nextId, arrived>>

\* An operation inside try { } throws: catch, abortTransaction, rethrow.
Abort(r) ==
  /\ req[r].pc \in {"txn", "commit"}
  /\ db' = AbortTransaction(db, req[r].staged)
  /\ req' = [req EXCEPT ![r] = Respond("error")]
  /\ UNCHANGED <<gate, cron, nextId, ledger, arrived>>

\* ------------------------------------------------ POST /withdraw
\* canMakeWithdrawal(user, amount) on req.user, the user document read
\* when the request was authenticated.
canMakeWithdrawal(u, amount) ==
  db.bankDetails[u].bankName /\ ~(db.balance[u] < amount) /\ ~(amount < 1)

WithdrawStart(r, u) ==
  /\ Free(r)
  /\ arrived' = arrived + 1
  /\ IF canMakeWithdrawal(u, Amount)
       THEN /\ req' = [req EXCEPT ![r] =
                 [Idle EXCEPT !.op = "withdraw", !.pc = "save", !.u = u,
                              !.amt = Amount, !.read = db.balance[u],
                              !.id = nextId]]
            /\ nextId' = nextId + 1
       ELSE /\ req' = [req EXCEPT ![r] =
                 Respond("rejected")]
            /\ UNCHANGED nextId
  /\ UNCHANGED <<db, gate, cron, ledger>>

\* await transaction.save()
WithdrawSave(r) ==
  /\ req[r].op = "withdraw" /\ req[r].pc = "save"
  /\ db' = Apply(db, InsertTx(req[r].id, req[r].u, "withdrawal", req[r].amt))
  /\ req' = [req EXCEPT ![r].pc = "debit"]
  /\ UNCHANGED <<gate, cron, nextId, ledger, arrived>>

\* The request only records the withdrawal and leaves the debit to the
\* approval.
WithdrawNoDebit(r) ==
  /\ req[r].op = "withdraw" /\ req[r].pc = "debit"
  /\ req' = [req EXCEPT ![r] = Respond("ok")]
  /\ UNCHANGED <<db, gate, cron, nextId, ledger, arrived>>

\* await User.findByIdAndUpdate(user._id, { $inc: { balance: -amount } })
WithdrawDebit(r) ==
  LET w == IncBalance(req[r].u, -req[r].amt, req[r].read, FALSE)
  IN  /\ req[r].op = "withdraw" /\ req[r].pc = "debit"
      /\ ~Locked(<<"user", req[r].u>>)
      /\ db' = Apply(db, w)
      /\ ledger' = Deltas(ledger, Matched(db, <<w>>))
      /\ req' = [req EXCEPT ![r] = Respond("ok")]
      /\ UNCHANGED <<gate, cron, nextId, arrived>>

\* ------------------------------------------------ POST /deposit
\* function resetval()
resetval ==
  IF ~reset
    THEN deposit_busy' = FALSE /\ tr_id' = 0 /\ reset' = TRUE
    ELSE UNCHANGED <<deposit_busy, tr_id, reset>>

\* The gate: busy requests are turned away; an admitted one clears reset
\* and publishes its transaction id as the lease id.
DepositStart(r, u) ==
  /\ Free(r)
  /\ arrived' = arrived + 1
  /\ IF deposit_busy
       THEN /\ req' = [req EXCEPT ![r] =
                 Respond("busy")]
            /\ UNCHANGED <<reset, tr_id, nextId>>
       ELSE /\ reset' = FALSE
            /\ tr_id' = nextId
            /\ nextId' = nextId + 1
            /\ req' = [req EXCEPT ![r] =
                 [Idle EXCEPT !.op = "deposit", !.pc = "save", !.u = u,
                              !.amt = Amount, !.id = nextId]]
  /\ UNCHANGED <<db, deposit_busy, timers, cron, ledger>>

\* await transaction.save()
DepositSave(r) ==
  /\ req[r].op = "deposit" /\ req[r].pc = "save"
  /\ db' = Apply(db, InsertTx(req[r].id, req[r].u, "deposit", req[r].amt))
  /\ req' = [req EXCEPT ![r].pc = "resume"]
  /\ UNCHANGED <<gate, cron, nextId, ledger, arrived>>

\* After the save: the response, deposit_busy = true and setTimeout.
DepositResume(r) ==
  /\ req[r].op = "deposit" /\ req[r].pc = "resume"
  /\ deposit_busy' = TRUE
  /\ timers' = timers \cup {req[r].id}
  /\ req' = [req EXCEPT ![r] = Respond("ok")]
  /\ UNCHANGED <<db, tr_id, reset, cron, nextId, ledger, arrived>>

\* The setTimeout callback of deposit t fires.
Timeout(t) ==
  /\ t \in timers
  /\ resetval
  /\ timers' = timers \ {t}
  /\ UNCHANGED <<db, req, cron, nextId, ledger, arrived>>

\* ------------------------------------------------ POST /deposit/received
\* A filter on the transactionId alone.
MatchesAnyAmount(t, lease, minor) == Stored(t) /\ t = lease

\* The filter { transactionId: tr_id, amount: payment.amount / 100 }.
Matches(t, lease, minor) ==
  Stored(t) /\ t = lease /\ db.txns[t].amount * 100 = minor

\* A present signature is accepted without being compared.
AnySignature(sig, body) == sig # NoSig

\* expectedSignature === signature
ValidSignature(sig, body) == Hmac(Secret, body) = sig

\* The signature checks; for a payment.captured event the response is sent
\* and, with a lease id set, the update is issued with that id.
WebhookStart(r, sig, body) ==
  /\ Free(r)
  /\ arrived' = arrived + 1
  /\ req' = [req EXCEPT ![r] =
       IF sig = NoSig
         THEN Respond("Webhook request is missing a signature.")
       ELSE IF ~ValidSignature(sig, body)
         THEN Respond("Invalid signature.")
       ELSE IF body.event # "payment.captured"
         THEN Respond("Event received, but not processed by this handler.")
       ELSE IF tr_id # 0
         THEN [Idle EXCEPT !.op = "webhook", !.pc = "match", !.id = tr_id,
                           !.amt = body.amount, !.paid = body.paid,
                           !.res = "Webhook received and processed."]
         ELSE Respond("Webhook received and processed.")]
  /\ UNCHANGED <<db, gate, cron, nextId, ledger>>

\* Transaction.findOneAndUpdate(filter, { status: "success" }) returns the
\* document as it was before the update, or null; transaction.userId on
\* null throws, after the response was sent.
WebhookMatch(r) ==
  LET t == req[r].id
  IN  /\ req[r].op = "webhook" /\ req[r].pc = "match"
      /\ ~Locked(<<"tx", t>>)
      /\ IF Matches(t, t, req[r].amt)
           THEN /\ db' = Apply(db, SetStatus(t, "success"))
                /\ req' = [req EXCEPT ![r].pc = "credit",
                                      ![r].u = db.txns[t].userId,
                                      ![r].amt = db.txns[t].amount,
                                      ![r].seen = db.txns[t].status]
           ELSE /\ req' = [req EXCEPT ![r] =
                     [Respond(req[r].res) EXCEPT !.err = TRUE]]
                /\ UNCHANGED db
      /\ UNCHANGED <<gate, cron, nextId, ledger, arrived>>

\* await User.findByIdAndUpdate(userId, { $inc: { balance: amount } })
WebhookCredit(r) ==
  LET w == IncBalance(req[r].u, req[r].amt, db.balance[req[r].u], FALSE)
  IN  /\ req[r].op = "webhook" /\ req[r].pc = "credit"
      /\ ~Locked(<<"user", req[r].u>>)
      /\ db' = Apply(db, w)
      /\ ledger' = Deltas(ledger, Matched(db, <<w>>))
      /\ req' = [req EXCEPT ![r].pc = "release"]
      /\ UNCHANGED <<gate, cron, nextId, arrived>>

\* resetval() after the credit
WebhookRelease(r) ==
  /\ req[r].op = "webhook" /\ req[r].pc = "release"
  /\ resetval
  /\ req' = [req EXCEPT ![r] = Respond(req[r].res)]
  /\ UNCHANGED <<db, timers, cron, nextId, ledger, arrived>>

\* ------------------------------------------------ DELETE /users/:id
\* User.findById and User.findByIdAndDelete of a user that is not an admin;
\* the delete waits for an open transaction that has written the user.
DeleteUser(r, u) ==
  /\ Free(r)
  /\ arrived' = arrived + 1
  /\ IF ~db.exists[u]
       THEN /\ req' = [req EXCEPT ![r] = Respond("User not found")]
            /\ UNCHANGED db
       ELSE /\ ~Locked(<<"user", u>>)
            /\ db' = [db EXCEPT !.exists[u] = FALSE]
            /\ req' = [req EXCEPT ![r] = Respond("User deleted successfully")]
  /\ UNCHANGED <<gate, cron, nextId, ledger>>

\* ------------------------------------------------ PUT /api/user/bank-details
\* A validation that looks at the bank name alone.
validateBankName(body) == body.bankName

\* validateBankDetails: every field of the body is present and well formed.
validateBankDetails(body) == \A f \in BankFields : body[f]

\* The validation, then User.findByIdAndUpdate sets the four fields.
UpdateBankDetails(r, u, body) ==
  /\ Free(r)
  /\ arrived' = arrived + 1
  /\ IF validateBankDetails(body)
       THEN /\ db' = IF db.exists[u]
                       THEN [db EXCEPT !.bankDetails[u] = body] ELSE db
            /\ req' = [req EXCEPT ![r] =
                 Respond("Bank details updated successfully")]
       ELSE /\ req' = [req EXCEPT ![r] = Respond("Invalid bank details")]
            /\ UNCHANGED db
  /\ UNCHANGED <<gate, cron, nextId, ledger>>

\* ------------------------------------------------ PUT /api/products/:id
\* Product.findById and Product.findByIdAndUpdate(id, { productValidity: v });
\* the schema's timestamps set updatedAt to the day of the update.
EditProduct(r, p, v) ==
  /\ Free(r)
  /\ arrived' = arrived + 1
  /\ IF ~HasProduct(db, p)
       THEN /\ req' = [req EXCEPT ![r] = Respond("Product not found")]
            /\ UNCHANGED db
       ELSE /\ db' = [db EXCEPT !.productValidity[p] = v,
                                !.updatedAt[p] = Today]
            /\ req' = [req EXCEPT ![r] =
                 Respond("Product updated successfully")]
  /\ UNCHANGED <<gate, cron, nextId, ledger>>

\* ------------------------------------------------ PUT /users/:id
\* User.findById, then User.findByIdAndUpdate(id, { balance: b }): the
\* stored balance is replaced by the value of the request body.
UpdateUserStart(r, u, b) ==
  /\ Free(r)
  /\ arrived' = arrived + 1
  /\ req' = [req EXCEPT ![r] =
       IF ~db.exists[u]
         THEN Respond("User not found")
         ELSE [Idle EXCEPT !.op = "update", !.pc = "set", !.u = u,
                           !.amt = b, !.read = db.balance[u]]]
  /\ UNCHANGED <<db, gate, cron, nextId, ledger>>

UpdateUserSet(r) ==
  LET u == req[r].u
  IN  /\ req[r].op = "update" /\ req[r].pc = "set"
      /\ ~Locked(<<"user", u>>)
      /\ db' = IF db.exists[u] THEN [db EXCEPT !.balance[u] = req[r].amt]
                               ELSE db
      /\ req' = [req EXCEPT ![r] = Respond("User updated successfully")]
      /\ UNCHANGED <<gate, cron, nextId, ledger, arrived>>

\* ------------------------------------------------ DELETE /api/products/:id
\* Product.findById and Product.findByIdAndDelete.
DeleteProduct(r, p) ==
  /\ Free(r)
  /\ arrived' = arrived + 1
  /\ IF ~HasProduct(db, p)
       THEN /\ req' = [req EXCEPT ![r] = Respond("Product not found")]
            /\ UNCHANGED db
       ELSE /\ db' = [db EXCEPT !.product[p] = FALSE]
            /\ req' = [req EXCEPT ![r] =
                 Respond("Product deleted successfully")]
  /\ UNCHANGED <<gate, cron, nextId, ledger>>

\* ------------------------------------------------ PUT /transactions/:id/process
\* Transaction.findById with the user populated, and the pending check.
ProcessStart(r, t, action) ==
  /\ Free(r)
  /\ arrived' = arrived + 1
  /\ req' = [req EXCEPT ![r] =
       IF ~Stored(t)
         THEN Respond("notfound")
       ELSE IF db.txns[t].status # "pending"
         THEN Respond("already")
         ELSE [Idle EXCEPT !.op = "process", !.pc = "txn", !.id = t,
                           !.act = action, !.u = db.txns[t].userId,
                           !.amt = db.txns[t].amount,
                           !.read = db.balance[db.txns[t].userId]]]
  /\ UNCHANGED <<db, gate, cron, nextId, ledger>>

\* The writes of a process action with the debit of the withdrawal branch
\* (commented out in the source) in force.
ProcessWritesDebit(r) ==
  (IF req[r].act = "approve"
     THEN <<IncBalance(req[r].u,
                       IF db.txns[req[r].id].type = "deposit"
                         THEN req[r].amt ELSE -req[r].amt,
                       req[r].read, FALSE)>>
     ELSE <<>>)
  \o <<SetStatus(req[r].id,
                 IF req[r].act = "approve" THEN "success" ELSE "rejected")>>

\* The writes of a process action: approve credits a deposit and sets
\* success; approve of a withdrawal and reject only set the status.
ProcessWrites(r) ==
  (IF req[r].act = "approve" /\ db.txns[req[r].id].type = "deposit"
     THEN <<IncBalance(req[r].u, req[r].amt, req[r].read, FALSE)>>
     ELSE <<>>)
  \o <<SetStatus(req[r].id,
                 IF req[r].act = "approve" THEN "success" ELSE "rejected")>>

ProcessStage(r) ==
  /\ req[r].op = "process" /\ req[r].pc = "txn"
  /\ Stage(r, ProcessWrites(r))
  /\ UNCHANGED <<gate, cron, nextId, ledger, arrived>>

\* ------------------------------------------------ cronJob.js updateBalances
\* The scan Order.find() without the { status: 'active' } filter.
RECURSIVE SettleAllOrders(_, _, _)
SettleAllOrders(s, i, now) ==
  IF i > Len(s.orders) THEN <<>>
  ELSE (IF HasProduct(s, s.orders[i].productId)
          THEN <<IncBalance(s.orders[i].userId, PerDayEarning,
                            s.balance[s.orders[i].userId], FALSE),
                 IF s.orders[i].validity - 1 <= 0
                   THEN W("saveOrder", 0, i, s.orders[i].validity - 1, now,
                          FALSE, "completed")
                   ELSE W("saveOrder", 0, i, s.orders[i].validity - 1,
                          s.orders[i].endDate, FALSE, "active")>>
          ELSE <<>>)
       \o SettleAllOrders(s, i + 1, now)

\* A settlement that takes the remaining days from the product: an order
\* is left with no more days than the product's current productValidity
\* less one.
RECURSIVE SettleByProduct(_, _, _)
SettleByProduct(s, i, now) ==
  IF i > Len(s.orders) THEN <<>>
  ELSE (IF s.orders[i].status = "active"
           /\ HasProduct(s, s.orders[i].productId)
          THEN LET pv == s.productValidity[s.orders[i].productId]
                   v == IF pv < s.orders[i].validity
                          THEN pv - 1 ELSE s.orders[i].validity - 1
               IN  <<W("inc", s.orders[i].userId, 0, PerDayEarning,
                       s.balance[s.orders[i].userId], FALSE, ""),
                     IF v <= 0
                       THEN W("saveOrder", 0, i, v, now, FALSE, "completed")
                       ELSE W("saveOrder", 0, i, v, s.orders[i].endDate,
                              FALSE, "active")>>
          ELSE <<>>)
       \o SettleByProduct(s, i + 1, now)

\* For each active order from index i on whose product is found: the
\* credit of perDayEarning and the saved order with validity - 1, completed
\* with endDate = now when it reaches 0.  An order whose product is not
\* found is passed over.
RECURSIVE SettleWrites(_, _, _)
SettleWrites(s, i, now) ==
  IF i > Len(s.orders) THEN <<>>
  ELSE (IF s.orders[i].status = "active"
           /\ HasProduct(s, s.orders[i].productId)
          THEN <<IncBalance(s.orders[i].userId, PerDayEarning,
                            s.balance[s.orders[i].userId], FALSE),
                 IF s.orders[i].validity - 1 <= 0
                   THEN SaveOrder(i, s.orders[i].validity - 1, "completed",
                                  now)
                   ELSE SaveOrder(i, s.orders[i].validity - 1, "active",
                                  s.orders[i].endDate)>>
          ELSE <<>>)
       \o SettleWrites(s, i + 1, now)

CronStart ==
  /\ cron.pc = "idle" /\ cron.runs < MaxRuns
  /\ IF \E d \in Docs(SettleWrites(db, 1, Today + 1)) : Locked(d)
       THEN cron' = [cron EXCEPT !.runs = @ + 1, !.res = "WriteConflict"]
       ELSE cron' = [cron EXCEPT !.pc = "commit",
                                 !.staged = SettleWrites(db, 1, Today + 1)]
  /\ UNCHANGED <<db, gate, req, nextId, ledger, arrived>>

CronCommit ==
  /\ cron.pc = "commit"
  /\ db' = CommitTransaction(db, cron.staged)
  /\ ledger' = Deltas(ledger, Matched(db, cron.staged))
  /\ cron' = [pc |-> "idle", staged |-> <<>>, runs |-> cron.runs + 1,
              res |-> "ok"]
  /\ UNCHANGED <<gate, req, nextId, arrived>>

\* An error in the loop: logged, abortTransaction.
CronAbort ==
  /\ cron.pc = "commit"
  /\ db' = AbortTransaction(db, cron.staged)
  /\ cron' = [pc |-> "idle", staged |-> <<>>, runs |-> cron.runs + 1,
              res |-> "error"]
  /\ UNCHANGED <<gate, req, nextId, ledger, arrived>>

\* ---------------------------------------------------------------- system
OrderArrives(r) == \E u \in Users, p \in ProductIds : OrderStart(r, u, p)
WithdrawArrives(r) == \E u \in Users : WithdrawStart(r, u)
DepositArrives(r) == \E u \in Users : DepositStart(r, u)
\* A payment is made against a deposit request only after the request was
\* answered with the UPI address, that is after its save.
Payable(t) ==
  IF t = 0 THEN TRUE ELSE Stored(t) /\ db.txns[t].type = "deposit"

WebhookArrives(r) ==
  /\ Free(r)
  /\ \E body \in {b \in Bodies : Payable(b.paid)} :
       \E sig \in SignaturesFor(body) : WebhookStart(r, sig, body)
ProcessArrives(r) ==
  \E t \in TxIds, a \in {"approve", "reject"} : ProcessStart(r, t, a)

OrderStep(r) == OrderStage(r) \/ Commit(r) \/ Abort(r)
WithdrawStep(r) == WithdrawSave(r) \/ WithdrawDebit(r)
DepositStep(r) == DepositSave(r) \/ DepositResume(r)
WebhookStep(r) == WebhookMatch(r) \/ WebhookCredit(r) \/ WebhookRelease(r)
ProcessStep(r) == ProcessStage(r) \/ Commit(r) \/ Abort(r)
CronStep == CronStart \/ CronCommit \/ CronAbort

Arrives(r) ==
  \/ OrderArrives(r)
  \/ WithdrawArrives(r)
  \/ DepositArrives(r)
  \/ WebhookArrives(r)
  \/ ProcessArrives(r)

Step(r) ==
  \/ OrderStep(r)
  \/ WithdrawStep(r)
  \/ DepositStep(r)
  \/ WebhookStep(r)
  \/ ProcessStep(r)

\* The whole system.
Next ==
  \/ \E r \in Reqs : Arrives(r)
  \/ \E r \in Reqs : Step(r)
  \/ \E t \in TxIds : Timeout(t)
  \/ CronStep

Spec == Init /\ [][Next]_vars

\* The whole system with at most LedgerReq requests.
NextLedger ==
  \/ arrived < LedgerReq /\ \E r \in Reqs : Arrives(r)
  \/ \E r \in Reqs : Step(r)
  \/ \E t \in TxIds : Timeout(t)
  \/ CronStep

SpecLedger == Init /\ [][NextLedger]_vars

\* Purchases alone.
NextOrder == \E r \in Reqs : OrderArrives(r) \/ OrderStep(r)

SpecOrder == Init /\ [][NextOrder]_vars

\* Purchases while the admin deletes users.
DeleteArrives(r) == \E u \in Users : DeleteUser(r, u)

NextRefer ==
  \E r \in Reqs : OrderArrives(r) \/ OrderStep(r) \/ DeleteArrives(r)

SpecRefer == Init /\ [][NextRefer]_vars

\* Purchases and the daily settlement while the admin deletes products and
\* users, with at most LedgerReq requests.
ProductArrives(r) == \E p \in ProductIds : DeleteProduct(r, p)

NextSettle ==
  \/ /\ arrived < LedgerReq
     /\ \E r \in Reqs :
          OrderArrives(r) \/ ProductArrives(r) \/ DeleteArrives(r)
  \/ \E r \in Reqs : OrderStep(r)
  \/ CronStep

SpecSettle == Init /\ [][NextSettle]_vars

\* req.body.productValidity of a product update: isInt({ min: 1 })
EditedValidities == {1, ProductValidity + 1}
EditArrives(r) ==
  \E p \in ProductIds, v \in EditedValidities : EditProduct(r, p, v)

\* Purchases and the daily settlement while the admin edits and deletes
\* products and deletes users, with at most LedgerReq requests.
NextEdit ==
  \/ /\ arrived < LedgerReq
     /\ \E r \in Reqs : EditArrives(r)
  \/ NextSettle

SpecEdit == Init /\ [][NextEdit]_vars

\* The job goes on running every day: the days after MaxRuns are not told
\* apart, the day counter is held at MaxRuns.
LaterDays ==
  /\ cron.pc = "idle" /\ cron.runs = MaxRuns
  /\ cron' = [cron EXCEPT !.runs = MaxRuns - 1]
  /\ UNCHANGED <<db, gate, req, nextId, ledger, arrived>>

NextDaily == NextSettle \/ LaterDays

\* node-cron starts the job every day and Node runs every continuation
\* whose awaited operation has completed; an operation of the job may fail
\* on some days, but not on every day for ever.
FairSettle ==
  /\ Init /\ [][NextDaily]_vars
  /\ WF_vars(CronStart) /\ WF_vars(LaterDays)
  /\ SF_vars(CronCommit)
  /\ \A r \in Reqs : WF_vars(OrderStep(r))

\* Deposit and withdrawal requests and the admin's process actions.
NextAdmin ==
  \/ \E r \in Reqs : DepositArrives(r) \/ WithdrawArrives(r) \/ ProcessArrives(r)
  \/ \E r \in Reqs : DepositStep(r) \/ WithdrawStep(r) \/ ProcessStep(r)
  \/ \E t \in TxIds : Timeout(t)

SpecAdmin == Init /\ [][NextAdmin]_vars

\* Withdrawal requests and the admin's process actions.
NextWithdraw ==
  \/ \E r \in Reqs : WithdrawArrives(r) \/ ProcessArrives(r)
  \/ \E r \in Reqs : WithdrawStep(r) \/ ProcessStep(r)

SpecWithdraw == Init /\ [][NextWithdraw]_vars

\* await User.findByIdAndUpdate rejects after transaction.save() has
\* stored the withdrawal: asyncHandler's catch answers with the error.
WithdrawDebitFails(r) ==
  /\ req[r].op = "withdraw" /\ req[r].pc = "debit"
  /\ req' = [req EXCEPT ![r] = Respond("error")]
  /\ UNCHANGED <<db, gate, cron, nextId, ledger, arrived>>

\* Withdrawal requests when the debit may fail.
NextWithdrawFail ==
  \/ \E r \in Reqs : WithdrawArrives(r)
  \/ \E r \in Reqs : WithdrawStep(r)
  \/ \E r \in Reqs : WithdrawDebitFails(r)

SpecWithdrawFail == Init /\ [][NextWithdrawFail]_vars

\* req.body.balance of an admin's user update
AdminBalances == {0, InitBalance + Amount}
UpdateArrives(r) ==
  \E u \in Users, b \in AdminBalances : UpdateUserStart(r, u, b)

\* Withdrawal requests while the admin updates users.
NextUpdate ==
  \/ \E r \in Reqs : WithdrawArrives(r) \/ UpdateArrives(r)
  \/ \E r \in Reqs : WithdrawStep(r) \/ UpdateUserSet(r)

SpecUpdate == Init /\ [][NextUpdate]_vars

\* req.body of a bank details update: each field is valid or not.
BankArrives(r) ==
  \E u \in Users, body \in [BankFields -> BOOLEAN] :
    UpdateBankDetails(r, u, body)

\* Withdrawal requests of users who have or have not submitted their bank
\* details, and bank details updates.
NextBank ==
  \/ \E r \in Reqs : WithdrawArrives(r) \/ BankArrives(r)
  \/ \E r \in Reqs : WithdrawStep(r)

SpecBank == InitBank /\ [][NextBank]_vars

\* The gateway: deposit requests, payment callbacks and timers.
GateStep(r) == DepositStep(r) \/ WebhookStep(r)

NextGate ==
  \/ \E r \in Reqs : DepositArrives(r) \/ WebhookArrives(r)
  \/ \E r \in Reqs : GateStep(r)
  \/ \E t \in TxIds : Timeout(t)

SpecGate == Init /\ [][NextGate]_vars

\* The timeout set by deposit t has fired: the request was answered and
\* its timer is no longer pending.
TimedOut(t) ==
  /\ Stored(t) /\ db.txns[t].type = "deposit"
  /\ t \notin timers
  /\ ~\E q \in Reqs : req[q].op = "deposit" /\ req[q].id = t

\* A callback for the payment of a deposit arrives after the deposit's
\* timeout has fired.
LateArrives(r) ==
  /\ Free(r)
  /\ \E body \in {b \in Bodies : b.paid # 0} :
       /\ TimedOut(body.paid)
       /\ \E sig \in SignaturesFor(body) : WebhookStart(r, sig, body)

\* The gateway when payments are made late: deposit requests, timers, and
\* callbacks that arrive after the timeout of their deposit.
NextLate ==
  \/ \E r \in Reqs : DepositArrives(r) \/ LateArrives(r)
  \/ \E r \in Reqs : GateStep(r)
  \/ \E t \in TxIds : Timeout(t)

SpecLate == Init /\ [][NextLate]_vars

\* A callback arrives while the lease id is that of a stored deposit.
LeasedArrives(r) ==
  /\ Free(r)
  /\ tr_id # 0 /\ Stored(tr_id)
  /\ \E body \in {b \in Bodies : Payable(b.paid)} :
       \E sig \in SignaturesFor(body) : WebhookStart(r, sig, body)

\* The gateway when callbacks arrive for the leased transaction id:
\* deposit requests, timers, and callbacks that find the lease id set to a
\* stored deposit.
NextLeased ==
  \/ \E r \in Reqs : DepositArrives(r) \/ LeasedArrives(r)
  \/ \E r \in Reqs : GateStep(r)
  \/ \E t \in TxIds : Timeout(t)

SpecLeased == Init /\ [][NextLeased]_vars

\* await User.findByIdAndUpdate rejects (the database is unreachable): the
\* rejection goes to asyncHandler's catch after the response was sent, and
\* resetval() is not reached.
WebhookCreditFails(r) ==
  /\ req[r].op = "webhook" /\ req[r].pc = "credit"
  /\ req' = [req EXCEPT ![r] = [Respond(req[r].res) EXCEPT !.err = TRUE]]
  /\ UNCHANGED <<db, gate, cron, nextId, ledger, arrived>>

\* The gateway when a database operation of the callback handler may fail.
NextFail ==
  \/ NextGate
  \/ \E r \in Reqs : WebhookCreditFails(r)

SpecFail == Init /\ [][NextFail]_vars

\* Node runs every continuation whose awaited operation has completed and
\* every timer whose delay has passed; requests arrive as the clients wish.
FairGate ==
  /\ SpecGate
  /\ \A r \in Reqs : WF_vars(GateStep(r))
  /\ \A t \in TxIds : WF_vars(Timeout(t))

\* ---------------------------------------------------------------- claims
\* C1: whatever the interleaving of the balance operations (settlement
\* credit, deposit credit, referral bonus, purchase debit, withdrawal
\* debit), every user's balance is the initial balance plus the sum of the
\* deltas of the operations that were written: none is lost, none is
\* applied twice.
LedgerConserved == \A u \in Users : db.balance[u] = InitBalance + ledger[u]

\* Two withdrawals of user 1 each passed the balance check before the
\* other's debit, and both debits are in the balance.
TwoDebitsLanded ==
  /\ ledger[1] = -(2 * Amount)
  /\ \A r \in Reqs : req[r].pc = "idle"

\* C2: every user's balance is >= 0 in every state of the store.
BalanceNonNegative == \A u \in Users : db.balance[u] >= 0

\* C3: the step that sets a pending withdrawal to rejected credits the
\* amount back to its user in the same step.
RejectRestoresBalance ==
  [][\A t \in TxIds :
       (/\ db.txns[t].type = "withdrawal"
        /\ db.txns[t].status = "pending"
        /\ db'.txns[t].status = "rejected")
       => db'.balance[db.txns[t].userId]
            = db.balance[db.txns[t].userId] + db.txns[t].amount]_vars

\* C4: with the admin's process actions the only writers of a status, of
\* the process actions on one transaction exactly one takes effect: a
\* process action changes the store only while the transaction is pending.
ProcessTakesEffectOnce ==
  [][\A r \in Reqs :
       (/\ req[r].op = "process"
        /\ req[r].pc = "commit"
        /\ req'[r].pc = "idle"
        /\ db' # db)
       => db.txns[req[r].id].status = "pending"]_vars

\* C5: a status that is success, approved or rejected never changes again.
StatusOneWay ==
  [][\A t \in TxIds :
       db.txns[t].status \in {"success", "approved", "rejected"}
       => db'.txns[t].status = db.txns[t].status]_vars

\* The sum of the amounts of the deposits of u that are success.
RECURSIVE SuccessDeposits(_, _)
SuccessDeposits(u, t) ==
  IF t = 0 THEN 0
  ELSE SuccessDeposits(u, t - 1)
       + (IF /\ db.txns[t].userId = u
             /\ db.txns[t].type = "deposit"
             /\ db.txns[t].status = "success"
            THEN db.txns[t].amount ELSE 0)

\* C6: with deposits and callbacks alone, a user has been credited at most
\* the amount of each deposit that is success once, however often and
\* however overlapped the callbacks are delivered.
CallbackCreditsOnce ==
  \A u \in Users : db.balance[u] - InitBalance <= SuccessDeposits(u, MaxReq)

\* C7: a callback that has matched a transaction found it pending.
CallbackOnlyPending ==
  \A r \in Reqs :
    (req[r].op = "webhook" /\ req[r].pc \in {"credit", "release"})
    => req[r].seen = "pending"

\* C8: a deposit request passes the gate only when no lease is outstanding
\* (no release is due).
AdmittedOnlyWhenFree ==
  [][\A r \in Reqs :
       (req[r].pc = "idle" /\ req'[r].op = "deposit" /\ req'[r].pc = "save")
       => reset]_vars

\* C9: whenever the gateway is busy it eventually becomes free.
GateEventuallyFree == deposit_busy ~> ~deposit_busy

\* Orders of user u, and orders of the users u referred.
NOrders(u) ==
  Cardinality({i \in DOMAIN db.orders : db.orders[i].userId = u})
ReferredOrders(u) ==
  Cardinality({i \in DOMAIN db.orders : ReferredBy[db.orders[i].userId] = u})

\* C10: with purchases alone, in every state of the store each order has
\* its debit and its flag and each debit its order, and the referrer holds
\* a bonus exactly when a referred user has an order: the effects of
\* createOrder are all there or none is.
OrderAtomic ==
  \A u \in Users :
    /\ db.hasPlacedFirstOrder[u] <=> NOrders(u) > 0
    /\ \E k \in 0..ReferredOrders(u) :
         /\ k = 0 <=> ReferredOrders(u) = 0
         /\ db.balance[u]
              = InitBalance - Price * NOrders(u) + ReferralBonus * k

\* The first order of user 1 is committed with its debit, flag and bonus,
\* and another purchase has ended without an order.
OrderCommitted ==
  /\ NOrders(1) = 1
  /\ db.balance[1] = InitBalance - Price
  /\ db.hasPlacedFirstOrder[1]
  /\ db.balance[2] = InitBalance + ReferralBonus
  /\ arrived > 1
  /\ \A r \in Reqs : req[r].pc = "idle"

\* C11: a purchase request received for a product that is not in the store
\* ends at once with "Product not found", and one received for a user whose
\* balance is below the price ends at once with "Insufficient wallet
\* balance"; in both cases the handler has finished and the store (orders,
\* balances, first-order flags) and the sum of written deltas are as before.
OrderRefusedChangesNothing ==
  [][\A r \in Reqs, u \in Users, p \in ProductIds :
       OrderStart(r, u, p) =>
         /\ ~HasProduct(db, p) =>
              /\ req'[r].res = "Product not found"
              /\ req'[r].pc = "idle"
              /\ db' = db /\ ledger' = ledger
         /\ (HasProduct(db, p) /\ db.balance[u] < Price) =>
              /\ req'[r].res = "Insufficient wallet balance"
              /\ req'[r].pc = "idle"
              /\ db' = db /\ ledger' = ledger]_vars

\* User 1 has spent the balance on an order; a further purchase was refused
\* for the balance and one for the product, and nothing else is in the store.
OrderRefused ==
  /\ \E r \in Reqs : req[r].res = "Insufficient wallet balance"
  /\ \E r \in Reqs : req[r].res = "Product not found"
  /\ db.balance[1] < Price
  /\ Len(db.orders) = 1
\* Users who registered with the referral code of u.
Referred(u) == {v \in Users : ReferredBy[v] = u}

\* C12: with purchases alone, whatever their order and overlap, the
\* referrer has been credited at most one bonus for each user referred.
ReferralBonusAtMostOnce ==
  \A u \in Users :
    db.balance[u] <= InitBalance - Price * NOrders(u)
                       + ReferralBonus * Cardinality(Referred(u))

\* C13: the commit of an order of a referred user credits the referrer
\* exactly the referral bonus and no third user when it is the user's first
\* order (the first-order flag was not yet in the store), and leaves the
\* referrer's balance unchanged when the user already has an order.
BonusOnFirstOrderOnly ==
  [][\A r \in Reqs :
       (/\ req[r].op = "order" /\ req[r].pc = "commit"
        /\ req'[r].res = "ok"
        /\ ReferredBy[req[r].u] \in Users)
       => LET u == req[r].u
              ref == ReferredBy[u]
          IN  IF ~db.hasPlacedFirstOrder[u]
                THEN /\ db'.balance[ref] = db.balance[ref] + ReferralBonus
                     /\ \A v \in Users \ {u, ref} :
                          db'.balance[v] = db.balance[v]
                ELSE db'.balance[ref] = db.balance[ref]]_vars
\* C14: a first order (isFirstOrder true) of a buyer whose referredBy is
\* null or held by no user in the store is not stopped for that: its
\* transaction step goes on to the commit unless another transaction holds
\* the buyer's document, and its commit inserts the order, debits the price
\* from the buyer, sets the buyer's first-order flag and changes no other
\* user's balance.
MissingReferrerNoBonus ==
  [][\A r \in Reqs :
       LET u == req[r].u
       IN  (/\ req[r].op = "order" /\ req[r].flag
            /\ db.exists[u]
            /\ Referrer(db, u) = 0)
           => /\ (OrderStage(r) /\ ~Locked(<<"user", u>>))
                   => req'[r].pc = "commit"
              /\ (req[r].pc = "commit" /\ req'[r].res = "ok")
                   => /\ Len(db'.orders) = Len(db.orders) + 1
                      /\ db'.orders[Len(db'.orders)].userId = u
                      /\ db'.balance[u] = db.balance[u] - Price
                      /\ db'.hasPlacedFirstOrder[u]
                      /\ \A v \in Users \ {u} :
                           db'.balance[v] = db.balance[v]]_vars

\* User 2, who has no referrer, has placed an order and was then deleted;
\* user 1, referred by user 2, has placed the first order after that: both
\* orders have their debit and flag and user 2 holds no bonus.
OrderedWithoutReferrer ==
  /\ ~db.exists[2]
  /\ NOrders(1) = 1 /\ NOrders(2) = 1
  /\ db.hasPlacedFirstOrder[1] /\ db.hasPlacedFirstOrder[2]
  /\ db.balance[1] = InitBalance - Price
  /\ db.balance[2] = InitBalance - Price
  /\ \E r \in Reqs : req[r].res = "ok"
\* C15: a withdrawal request of amount A received for a user with bank
\* details and balance B >= A is accepted; its save stores exactly one new
\* transaction, a pending withdrawal of amount A of that user, and its next
\* step, taken by the request handler itself before it answers, lowers the
\* stored balance by exactly A.
WithdrawalReservesAtRequest ==
  [][/\ \A r \in Reqs, u \in Users :
          (WithdrawStart(r, u) /\ db.balance[u] >= Amount)
          => (req'[r].op = "withdraw" /\ req'[r].amt = Amount
              /\ req'[r].read = db.balance[u])
     /\ \A r \in Reqs :
          LET u == req[r].u
              t == req[r].id
          IN  (req[r].op = "withdraw" /\ req'[r] # req[r])
              => IF req[r].pc = "save"
                   THEN /\ ~Stored(t)
                        /\ db'.txns[t] = [userId |-> u, type |-> "withdrawal",
                                          amount |-> req[r].amt,
                                          status |-> "pending"]
                        /\ \A x \in TxIds \ {t} : db'.txns[x] = db.txns[x]
                        /\ db'.balance = db.balance
                        /\ req'[r].pc = "debit"
                   ELSE /\ db'.balance[u] = db.balance[u] - req[r].amt
                        /\ db'.txns = db.txns
                        /\ req'[r].res = "ok"]_vars

\* One withdrawal was requested and answered and the admin has done
\* nothing: the transaction is pending and the balance is already B - A.
WithdrawalReserved ==
  /\ arrived = 1
  /\ \A r \in Reqs : req[r].pc = "idle"
  /\ \E r \in Reqs : req[r].res = "ok"
  /\ db.txns[1] = [userId |-> 1, type |-> "withdrawal", amount |-> Amount,
                   status |-> "pending"]
  /\ db.balance[1] = InitBalance - Amount
\* The sum of the amounts of the stored withdrawals of u whose request
\* handler has got past its debit.
RECURSIVE DebitedWithdrawals(_, _)
DebitedWithdrawals(u, t) ==
  IF t = 0 THEN 0
  ELSE DebitedWithdrawals(u, t - 1)
       + (IF /\ db.txns[t].userId = u
             /\ db.txns[t].type = "withdrawal"
             /\ ~\E r \in Reqs : /\ req[r].op = "withdraw"
                                  /\ req[r].pc = "debit"
                                  /\ req[r].id = t
            THEN db.txns[t].amount ELSE 0)

\* C16: with withdrawals and process actions alone, the commit of an
\* approval of a withdrawal sets its status to success and changes no
\* balance, and in every state each withdrawal whose request was answered
\* has been debited exactly once, approved or not.
ApprovalKeepsBalance ==
  /\ [](\A u \in Users :
          db.balance[u] = InitBalance - DebitedWithdrawals(u, MaxReq))
  /\ [][\A r \in Reqs :
          (/\ req[r].op = "process" /\ req[r].act = "approve"
           /\ req[r].pc = "commit" /\ req'[r].res = "ok"
           /\ db.txns[req[r].id].type = "withdrawal")
          => /\ db'.txns[req[r].id].status = "success"
             /\ db'.balance = db.balance]_vars

\* A withdrawal was requested, debited and then approved: its status is
\* success and the balance is still B - A.
WithdrawalApproved ==
  /\ db.txns[1].type = "withdrawal" /\ db.txns[1].status = "success"
  /\ db.balance[db.txns[1].userId] = InitBalance - Amount
  /\ \A r \in Reqs : req[r].pc = "idle"
  /\ arrived = 2
\* The sum of the amounts of the withdrawals of u that are pending or
\* success.
RECURSIVE AcceptedWithdrawals(_, _)
AcceptedWithdrawals(u, t) ==
  IF t = 0 THEN 0
  ELSE AcceptedWithdrawals(u, t - 1)
       + (IF /\ db.txns[t].userId = u
             /\ db.txns[t].type = "withdrawal"
             /\ db.txns[t].status \in {"pending", "success"}
            THEN db.txns[t].amount ELSE 0)

\* C17: with withdrawals and process actions alone, the amounts of the
\* accepted withdrawals (pending or success) of a user never add up to
\* more than the balance the user started with.
WithdrawalsWithinBalance ==
  \A u \in Users : AcceptedWithdrawals(u, MaxReq) <= InitBalance
\* C18: no step of a deposit request changes a balance; the commit of an
\* approval of a deposit of amount A sets its status to success and raises
\* its user's balance by exactly A, both in that one step and with no other
\* balance changed; a process action that ends in an error leaves the
\* store as it was.
DepositApprovalAtomic ==
  [][/\ \A r \in Reqs :
          (DepositArrives(r) \/ DepositStep(r)) => db'.balance = db.balance
     /\ \A r \in Reqs :
          LET t == req[r].id
              u == req[r].u
          IN  (req[r].op = "process" /\ req'[r] # req[r])
              => /\ (/\ req[r].act = "approve"
                     /\ db.txns[t].type = "deposit"
                     /\ req[r].pc = "commit" /\ req'[r].res = "ok")
                    => /\ db'.txns[t].status = "success"
                       /\ db'.balance[u] = db.balance[u] + db.txns[t].amount
                       /\ \A v \in Users \ {u} :
                            db'.balance[v] = db.balance[v]
                 /\ req'[r].res = "error" => db' = db
                 /\ req'[r].pc = "commit" => db' = db]_vars

\* A deposit of user 1 was requested (balance unchanged by that), one
\* process action on it ended in an error, and an approval committed: the
\* status is success and the balance is B + A.
DepositApproved ==
  /\ db.txns[1] = [userId |-> 1, type |-> "deposit", amount |-> Amount,
                   status |-> "success"]
  /\ db.balance[1] = InitBalance + Amount
  /\ \E r \in Reqs : req[r].res = "error"
  /\ \E r \in Reqs : req[r].res = "ok"
  /\ \A r \in Reqs : req[r].pc = "idle"
\* C19: a payment.captured callback with a valid signature whose update
\* finds the transaction of the lease id stored with another amount (no
\* match) ends without an error, and the store and the gate (lease id, busy
\* flag, reset, timers) are as before.
NoMatchIsNoOp ==
  [][\A r \in Reqs :
       (/\ req[r].op = "webhook" /\ req[r].pc = "match"
        /\ req'[r] # req[r]
        /\ Stored(req[r].id)
        /\ ~Matches(req[r].id, req[r].id, req[r].amt))
       => /\ ~req'[r].err
          /\ db' = db
          /\ gate' = gate]_vars
\* The responses of the webhook with status 400, and those with status 200.
Rejections ==
  {"Webhook request is missing a signature.", "Invalid signature."}
Acknowledgements ==
  {"Webhook received and processed.",
   "Event received, but not processed by this handler."}

\* C20: a webhook request with no signature, or with one that is not the
\* HMAC of its body under the secret, is answered with a rejection and the
\* store and the gate are as before; a request whose signature is that HMAC
\* is answered with an acknowledgement whatever its event, and nothing its
\* handler does afterwards changes the answer.
OnlyBadSignatureRejected ==
  [][/\ \A r \in Reqs :
          (Free(r) /\ arrived' # arrived)
          => \A body \in {b \in Bodies : Payable(b.paid)} :
               \A sig \in SignaturesFor(body) :
                 WebhookStart(r, sig, body)
                 => IF sig = NoSig \/ sig # Hmac(Secret, body)
                      THEN /\ req'[r].res \in Rejections
                           /\ req'[r].pc = "idle"
                           /\ db' = db /\ gate' = gate /\ ledger' = ledger
                      ELSE req'[r].res \in Acknowledgements
     /\ \A r \in Reqs :
          req[r].op = "webhook" => req'[r].res = req[r].res]_vars

\* With a lease outstanding, a request whose signature is not the HMAC of
\* its body was rejected, and a signed callback that matched nothing was
\* acknowledged although its handler then threw; no transaction was touched.
WebhookAnswered ==
  /\ \E r \in Reqs : req[r].res = "Invalid signature."
  /\ \E r \in Reqs : req[r].res \in Acknowledgements /\ req[r].err
  /\ tr_id # 0
  /\ \A t \in TxIds : db.txns[t].status \in {"none", "pending"}
\* C21: with deposits, timers and callbacks that arrive after the timeout
\* of their deposit, the handler of a callback for a pending deposit whose
\* timeout has fired changes nothing in the store: the deposit stays
\* pending and no user is credited.
LateCallbackChangesNothing ==
  [][\A r \in Reqs :
       IF req[r].op = "webhook" /\ req[r].paid # 0
         THEN (/\ req'[r] # req[r]
               /\ TimedOut(req[r].paid)
               /\ db.txns[req[r].paid].status = "pending")
              => db' = db
         ELSE TRUE]_vars

\* The orders a settlement run has scanned and settled, and those of user u.
Settled == {cron.staged[j].id :
              j \in {k \in DOMAIN cron.staged : cron.staged[k].k = "saveOrder"}}
SettledOf(u) == {i \in Settled : db.orders[i].userId = u}

CompletedUntouched ==
  [][/\ \A i \in DOMAIN db.orders :
          db.orders[i].status = "completed" => db'.orders[i] = db.orders[i]
     /\ CronCommit
        => \A u \in Users :
             (\A i \in DOMAIN db.orders :
                db.orders[i].userId = u => db.orders[i].status = "completed")
             => db'.balance[u] = db.balance[u]]_vars

\* The only order was completed by the run of day ProductValidity and a
\* later run has been made: the order and the balance are as that run
\* left them.
RunAfterCompletion ==
  /\ cron.runs > ProductValidity /\ cron.pc = "idle"
  /\ Len(db.orders) = 1
  /\ db.orders[1].status = "completed"
  /\ db.orders[1].validity = 0
  /\ db.orders[1].endDate = ProductValidity
  /\ db.balance[db.orders[1].userId]
       = InitBalance - Price + ProductValidity * PerDayEarning
\* The orders of user u.
OrdersOf(u) == {i \in DOMAIN db.orders : db.orders[i].userId = u}

\* C24: in every state, a user who is in the store, has referred nobody
\* and has exactly one order holds the initial balance less the price plus
\* perDayEarning for each day the order's validity has gone down from
\* productValidity; the order is active while its validity is 1 or more
\* and completed at 0.  With balance 500, price 500, perDayEarning 50 and
\* validity 2: 0 with validity 2, 50 with validity 1, 100 and completed
\* with validity 0.
PurchaseThenSettlements ==
  \A u \in Users :
    (db.exists[u] /\ Referred(u) = {} /\ Cardinality(OrdersOf(u)) = 1)
    => \A i \in OrdersOf(u) :
         /\ db.orders[i].validity \in 0..ProductValidity
         /\ db.balance[u]
              = InitBalance - Price
                + PerDayEarning * (ProductValidity - db.orders[i].validity)
         /\ db.orders[i].status
              = IF db.orders[i].validity = 0 THEN "completed" ELSE "active"

\* User 1 has bought the product and productValidity runs have settled the
\* order, one day each: it is completed and the user holds the earnings.
ScenarioCompleted ==
  /\ cron.runs = ProductValidity /\ cron.pc = "idle"
  /\ OrdersOf(1) = {1} /\ Len(db.orders) = 1
  /\ db.orders[1].validity = 0 /\ db.orders[1].status = "completed"
  /\ db.balance[1] = InitBalance - Price + ProductValidity * PerDayEarning
\* C25: a settlement run that has scanned two or more active orders and
\* ends, by its commit or by a failure while it settles one of them, has
\* settled at least one of them: the store is not as it was before the run.
SettlementPerOrder ==
  [][(cron.pc = "commit" /\ cron'.pc = "idle" /\ Cardinality(Settled) >= 2)
     => db' # db]_vars
\* C26: under daily runs, every order that is active is eventually
\* completed, whatever purchases and deletions of products and users
\* happen in between.
ActiveOrderCompletes ==
  \A i \in 1..LedgerReq :
    (i \in DOMAIN db.orders /\ db.orders[i].status = "active")
    ~> (i \in DOMAIN db.orders /\ db.orders[i].status = "completed")
\* C27: the timer of a deposit that a callback has already marked success
\* and released (no callback is still being handled), firing while a later
\* deposit holds the lease, leaves the lease id and the busy flag as they are.
StaleTimerKeepsLease ==
  [][\A t \in TxIds :
       (/\ Timeout(t)
        /\ Stored(t) /\ db.txns[t].status = "success"
        /\ \A r \in Reqs : req[r].op # "webhook"
        /\ tr_id # 0 /\ tr_id # t)
       => UNCHANGED <<tr_id, deposit_busy>>]_vars
\* C28: whenever the gateway is busy, the lease id is set and is the
\* transactionId of a stored deposit, and the reset flag is false.
BusyHoldsLease ==
  deposit_busy =>
    /\ tr_id # 0
    /\ Stored(tr_id) /\ db.txns[tr_id].type = "deposit"
    /\ ~reset
\* C29: the handler of a callback for a payment made against deposit D,
\* when its update was issued with the id of a deposit of another user,
\* changes nothing in the store: it neither marks that deposit success nor
\* credits its user.
CallbackOnlyItsDeposit ==
  [][\A r \in Reqs :
       (/\ req[r].op = "webhook" /\ req'[r] # req[r]
        /\ req[r].paid # 0 /\ req[r].id # req[r].paid
        /\ Stored(req[r].id)
        /\ db.txns[req[r].id].userId # db.txns[req[r].paid].userId)
       => /\ db'.txns = db.txns
          /\ db'.balance = db.balance]_vars
\* C30: with deposits and callbacks whose credit may fail, once no callback
\* is being handled every user has been credited the amount of each of
\* their deposits that is success.
SuccessMeansCredited ==
  (\A r \in Reqs : req[r].op # "webhook")
  => \A u \in Users : db.balance[u] - InitBalance >= SuccessDeposits(u, MaxReq)
\* The sum of the amounts of the withdrawals of u that are pending.
RECURSIVE PendingWithdrawals(_, _)
PendingWithdrawals(u, t) ==
  IF t = 0 THEN 0
  ELSE PendingWithdrawals(u, t - 1)
       + (IF /\ db.txns[t].userId = u
             /\ db.txns[t].type = "withdrawal"
             /\ db.txns[t].status = "pending"
            THEN db.txns[t].amount ELSE 0)

\* C31: with withdrawal requests whose debit may fail, once no request is
\* being handled the amount of every pending withdrawal has been debited
\* from its user.
PendingMeansDebited ==
  (\A r \in Reqs : req[r].op # "withdraw")
  => \A u \in Users :
       db.balance[u] = InitBalance - PendingWithdrawals(u, MaxReq)
\* C32: with withdrawal requests and the admin's user updates, a step of a
\* user update taken after a concurrent debit has changed the balance the
\* handler read (the stored balance is still the sum of the recorded
\* changes) changes every user's balance by exactly the increments and
\* decrements it applies for a transaction or an order (those the ledger
\* records): it does not replace the balance by a value of its own.
BalanceChangesAreIncrements ==
  [][\A r \in Reqs :
       (/\ req[r].op = "update" /\ req'[r] # req[r]
        /\ db.balance[req[r].u] # req[r].read
        /\ db.balance[req[r].u] = InitBalance + ledger[req[r].u])
       => \A u \in Users :
            db'.balance[u] - db.balance[u] = ledger'[u] - ledger[u]]_vars
\* C33: with purchases, settlement runs, product edits and deletions and
\* user deletions, every order has validity >= 0 and is completed exactly
\* when its validity is 0, and no step makes a completed order active.
ValidityAndStatus ==
  /\ [](\A i \in DOMAIN db.orders :
          /\ db.orders[i].validity >= 0
          /\ db.orders[i].status = "completed" <=> db.orders[i].validity = 0)
  /\ [][\A i \in DOMAIN db.orders :
          db.orders[i].status = "completed"
          => db'.orders[i].status = "completed"]_vars

\* Two orders after a settlement run that came after the completion of the
\* first: the first is completed with validity 0, the second is active
\* with validity 1 or more.
CompletedAndActive ==
  /\ Len(db.orders) = 2
  /\ db.orders[1].status = "completed" /\ db.orders[1].validity = 0
  /\ db.orders[2].status = "active" /\ db.orders[2].validity >= 1
  /\ db.orders[2].credits >= 1
  /\ cron.pc = "idle"
\* The days of the orders of u up to index i that have been settled: the
\* validity each was created with less its remaining validity.
RECURSIVE SettledDays(_, _)
SettledDays(u, i) ==
  IF i = 0 THEN 0
  ELSE SettledDays(u, i - 1)
       + (IF db.orders[i].userId = u
            THEN db.orders[i].captured - db.orders[i].validity ELSE 0)

\* C34 as stated: for every order, the settlement credits that reached its
\* user's balance plus its remaining validity are the validity it was
\* created with.
CreditsPlusValidity ==
  \A i \in DOMAIN db.orders :
    db.orders[i].credits + db.orders[i].validity = db.orders[i].captured

\* C34, for the orders of users that are in the store: the credits made
\* for the order plus its remaining validity are the validity it was
\* created with, at most that many credits were made, exactly that many
\* once it is completed, and the balance of a user who has referred nobody
\* is the initial balance less the price of each order plus perDayEarning
\* for each settled day of the user's orders.
CreditsPlusValidityOfUsers ==
  \A u \in Users :
    db.exists[u]
    => /\ \A i \in OrdersOf(u) :
            /\ db.orders[i].credits + db.orders[i].validity
                 = db.orders[i].captured
            /\ db.orders[i].credits <= db.orders[i].captured
            /\ db.orders[i].status = "completed"
               => db.orders[i].credits = db.orders[i].captured
       /\ Referred(u) = {}
          => db.balance[u]
               = InitBalance - Price * Cardinality(OrdersOf(u))
                 + PerDayEarning * SettledDays(u, Len(db.orders))

\* An order created after the product's validity was edited to
\* productValidity + 1 has been settled on three runs: its user is in the
\* store and it is completed with as many credits.
EditedOrderCompleted ==
  \E i \in DOMAIN db.orders :
    /\ db.exists[db.orders[i].userId]
    /\ db.orders[i].captured = ProductValidity + 1
    /\ db.orders[i].status = "completed"
    /\ db.orders[i].credits = ProductValidity + 1
\* C35: no step takes hasPlacedFirstOrder of a user from true to false; it
\* becomes true only in the commit of a purchase of that user, together
\* with the new order and the debit of the price; every committed purchase
\* leaves it true; a purchase that is refused or aborted leaves every flag
\* as it was.
FirstOrderFlagMonotonic ==
  [][/\ \A u \in Users :
          /\ db.hasPlacedFirstOrder[u] => db'.hasPlacedFirstOrder[u]
          /\ (~db.hasPlacedFirstOrder[u] /\ db'.hasPlacedFirstOrder[u])
             => \E r \in Reqs :
                  /\ req[r].op = "order" /\ req[r].u = u
                  /\ req[r].pc = "commit" /\ req'[r].res = "ok"
                  /\ Len(db'.orders) = Len(db.orders) + 1
                  /\ db'.orders[Len(db'.orders)].userId = u
                  /\ db'.balance[u] = db.balance[u] - Price
     /\ \A r \in Reqs :
          /\ (/\ req[r].op = "order" /\ req[r].pc = "commit"
              /\ req'[r].res = "ok" /\ db.exists[req[r].u])
             => db'.hasPlacedFirstOrder[req[r].u]
          /\ (/\ req'[r] # req[r]
              /\ req'[r].res \in {"error", "Product not found",
                                   "Insufficient wallet balance"})
             => db'.hasPlacedFirstOrder = db.hasPlacedFirstOrder]_vars

\* User 1 has placed a first order that committed, and a purchase of
\* user 2 was aborted: only the flag of user 1 is set.
FlagSetByCommitOnly ==
  /\ db.hasPlacedFirstOrder[1] /\ ~db.hasPlacedFirstOrder[2]
  /\ OrdersOf(1) # {} /\ OrdersOf(2) = {}
  /\ \E r \in Reqs : req[r].res = "error" /\ req[r].pc = "idle"
  /\ \E r \in Reqs : req[r].res = "ok"
\* C36: a step that changes a product's productValidity leaves every order
\* as it is; the validity an order was created with is never changed, and
\* its remaining validity changes only in the commit of a settlement run,
\* by one day, so that an order is completed after as many settlements as
\* the validity it was created with, whatever the product's validity is
\* by then.
ValidityCapturedByValue ==
  /\ [][/\ db'.productValidity # db.productValidity => db'.orders = db.orders
        /\ \A i \in DOMAIN db.orders :
             /\ db'.orders[i].captured = db.orders[i].captured
             /\ db'.orders[i].validity # db.orders[i].validity
                => /\ cron.pc = "commit" /\ cron'.pc = "idle"
                   /\ db'.orders[i].validity = db.orders[i].validity - 1]_vars
  /\ [](\A i \in DOMAIN db.orders :
          /\ db.orders[i].validity \in 0..db.orders[i].captured
          /\ db.orders[i].status = "completed" <=> db.orders[i].validity = 0)

\* An order was created with productValidity days and settled by the first
\* run, the product's validity was edited to another value on a later day,
\* and the order was completed by productValidity settlements.
CompletedAfterEdit ==
  \E i \in DOMAIN db.orders :
    /\ db.orders[i].captured = ProductValidity
    /\ HasProduct(db, db.orders[i].productId)
    /\ db.productValidity[db.orders[i].productId] # ProductValidity
    /\ db.updatedAt[db.orders[i].productId] >= 1
    /\ db.orders[i].status = "completed"
    /\ db.orders[i].credits = ProductValidity
    /\ cron.runs = ProductValidity
\* C37: a settlement run that ends in a failure, in its loop after it has
\* buffered credits and decrements or at its first write, leaves the store
\* as it was before the run: no balance, no order and no recorded balance
\* change differs.
FailedRunChangesNothing ==
  [][(cron'.runs = cron.runs + 1 /\ cron'.res \in {"error", "WriteConflict"})
     => /\ db' = db
        /\ ledger' = ledger]_vars

\* The first run has settled two orders and the second run, which scanned
\* both again, has failed: both orders are as the first run left them.
RunFailedWithTwoOrders ==
  /\ cron.runs = 2 /\ cron.pc = "idle" /\ cron.res = "error"
  /\ Len(db.orders) = 2
  /\ \A i \in DOMAIN db.orders :
       /\ db.orders[i].status = "active"
       /\ HasProduct(db, db.orders[i].productId)
       /\ db.orders[i].validity = ProductValidity - 1
       /\ db.orders[i].credits = 1
       /\ db.balance[db.orders[i].userId] >= PerDayEarning
\* C38: the update of a callback for the leased transaction id marks the
\* transaction success exactly when the callback's amount in minor units
\* is 100 times the transaction's amount; when it is not, the step changes
\* nothing in the store (no status, no balance) and the handler makes no
\* further step.
MatchOnConvertedAmount ==
  [][\A r \in Reqs :
       LET t == req[r].id
       IN  (/\ req[r].op = "webhook" /\ req[r].pc = "match"
            /\ req'[r] # req[r] /\ Stored(t))
           => IF req[r].amt = db.txns[t].amount * 100
                THEN /\ db'.txns[t].status = "success"
                     /\ req'[r].pc = "credit"
                     /\ req'[r].amt = db.txns[t].amount
                ELSE /\ db' = db
                     /\ req'[r].pc = "idle"]_vars

\* A callback for the leased deposit carried another amount and its
\* handler has ended: the deposit is pending, it still holds the lease and
\* no balance has changed.
MismatchHandled ==
  /\ \E r \in Reqs : req[r].err /\ req[r].pc = "idle"
  /\ tr_id # 0 /\ Stored(tr_id) /\ db.txns[tr_id].status = "pending"
  /\ \A t \in TxIds : db.txns[t].status \in {"none", "pending"}
  /\ \A u \in Users : db.balance[u] = InitBalance
\* C39: with users who have or have not submitted bank details, bank
\* details updates and withdrawal requests, a withdrawal request of a user
\* for whom any of the four bank fields is unset is rejected, stores no
\* transaction and leaves every balance unchanged; and the four fields of
\* a user are always all set or all unset.
NoBankDetailsNoWithdrawal ==
  /\ [][\A r \in Reqs, u \in Users :
          (WithdrawStart(r, u) /\ \E f \in BankFields : ~db.bankDetails[u][f])
          => /\ req'[r].res = "rejected" /\ req'[r].pc = "idle"
             /\ db' = db /\ nextId' = nextId /\ ledger' = ledger]_vars
  /\ [](\A u \in Users :
          db.bankDetails[u] \in {NoBankDetails, FullBankDetails})

\* The first request was a withdrawal of a user with a sufficient balance
\* who has not submitted bank details: it was rejected, nothing is stored
\* and the balances are unchanged.
RejectedWithoutBankDetails ==
  /\ arrived = 1
  /\ \E r \in Reqs : req[r].res = "rejected"
  /\ \E u \in Users : db.bankDetails[u] = NoBankDetails
  /\ \A t \in TxIds : ~Stored(t)
  /\ nextId = 1
  /\ \A u \in Users : db.balance[u] = InitBalance /\ InitBalance >= Amount
\* C40: the commit of a settlement run that raises a user's balance also
\* stores a transaction of that user for the earning.
EarningHasTransaction ==
  [][\A u \in Users :
       (/\ cron.pc = "commit" /\ cron'.res = "ok"
        /\ db'.balance[u] > db.balance[u])
       => \E t \in TxIds :
            /\ ~Stored(t)
            /\ db'.txns[t].type # "none"
            /\ db'.txns[t].userId = u]_vars
====
